---- MODULE Spec2Model ----
(***************************************************************************)
(* Model of the collection-pattern engine of generate_pie_insights.py:     *)
(* calculate_collection_patterns, get_risk_level, generate_delays_analysis,*)
(* generate_entity_intelligence and generate_predictive_patterns.          *)
(*                                                                         *)
(* Time.  A timestamp is an integer number of ticks; a day has TicksPerDay *)
(* ticks and day 0 is 2023-01-01, so the reference date 2023-04-10 is day  *)
(* 99.  Timedelta.days is the floor of a difference in days.               *)
(*                                                                         *)
(* Decimals.  Values the code rounds to one decimal (round(x, 1)) are kept *)
(* as integers counting tenths: avg_interval_days = 125 stands for 12.5.   *)
(* The unrounded mean of the intervals is the pair (sum, count).           *)
(***************************************************************************)
EXTENDS Integers, Sequences, FiniteSets, TLC

VARIABLES df, patterns, delays, intelligence, predictive, pc,
          days_overdue_arg, risk_result, csv, now, reports, volume

vars == <<df, patterns, delays, intelligence, predictive, pc,
          days_overdue_arg, risk_result, csv, now, reports, volume>>

----------------------------------------------------------------------------
(* Bounds of the model *)

MaxRows == 4

TicksPerDay == 2

MaxOverdue == 60

----------------------------------------------------------------------------
(* Constants of the program *)

ReferenceDay == 99

MinInterval == 1

MaxInterval == 120

DefaultInterval == 14

TopAlerts == 20

\* the [:10] of high_risk_areas and the [:5] of high_risk_categories
TopAreas == 10

TopCategories == 5

ForecastDays == 30

MatchTolerance == 1

\* the [:10] of peak_demand_days
TopPeakDays == 10

\* q1_2023_start and q1_2023_end as day numbers: 2023-01-01 and 2023-03-31
Q1StartDay == 0

Q1EndDay == 89

RiskLevels == {"normal", "upcoming", "warning", "critical"}

----------------------------------------------------------------------------
(* Arithmetic helpers *)

\* max(0, days_overdue) without the clamp: the second argument as it is
Unclamped(a, b) == b

Max(a, b) == IF a >= b THEN a ELSE b

Abs(a) == IF a < 0 THEN -a ELSE a

RECURSIVE Sum(_)
Sum(s) == IF s = <<>> THEN 0 ELSE Head(s) + Sum(Tail(s))

\* num/den to the nearest integer, halves to the even neighbour (den > 0)
RoundHalfEven(num, den) ==
    LET q == num \div den
        r == num % den
    IN  IF 2 * r < den THEN q
        ELSE IF 2 * r > den THEN q + 1
        ELSE IF q % 2 = 0 THEN q ELSE q + 1

\* round(total / count, 1), in tenths
Round1(total, count) == RoundHalfEven(10 * total, count)

\* Timestamp.strftime('%Y-%m-%d') / the calendar day of a timestamp
DateOf(t) == t \div TicksPerDay

\* the days from b to a with both calendar days counted
DaysBetweenInclusive(a, b) == (a - b) \div TicksPerDay + 1

\* (a - b).days
DaysBetween(a, b) == (a - b) \div TicksPerDay

reference_date == ReferenceDay * TicksPerDay

----------------------------------------------------------------------------
(* Data-frame helpers *)

Front(s) == SubSeq(s, 1, Len(s) - 1)

Last(s) == s[Len(s)]

Column(rows, field) == [i \in DOMAIN rows |-> rows[i][field]]

Range(s) == {s[i] : i \in DOMAIN s}

RECURSIVE UniqueFrom(_, _)
UniqueFrom(s, acc) ==
    IF s = <<>> THEN acc
    ELSE UniqueFrom(Tail(s),
                    IF Head(s) \in Range(acc) THEN acc
                    ELSE Append(acc, Head(s)))

\* Series.unique(): the distinct values in order of first appearance
Unique(s) == UniqueFrom(s, <<>>)

\* df[df[field] == value]
Where(rows, field, value) == SelectSeq(rows, LAMBDA r : r[field] = value)

RECURSIVE InsertByDate(_, _)
InsertByDate(sorted, r) ==
    IF sorted = <<>> THEN <<r>>
    ELSE IF Last(sorted).t <= r.t THEN Append(sorted, r)
    ELSE Append(InsertByDate(Front(sorted), r), Last(sorted))

RECURSIVE SortValues(_)
\* sort_values('Collected Date'): ascending, rows of equal date keep their
\* order (the insertion sort numpy applies to short arrays)
SortValues(rows) ==
    IF rows = <<>> THEN <<>>
    ELSE InsertByDate(SortValues(Front(rows)), Last(rows))

----------------------------------------------------------------------------
(* get_risk_level *)

\* get_risk_level with the upcoming tier ending one day early
get_risk_level_early(days_overdue) ==
    IF days_overdue <= 0 THEN "normal"
    ELSE IF days_overdue < 5 THEN "upcoming"
    ELSE IF days_overdue <= 10 THEN "warning"
    ELSE "critical"

get_risk_level(days_overdue) ==
    IF days_overdue <= 0 THEN "normal"
    ELSE IF days_overdue <= 5 THEN "upcoming"
    ELSE IF days_overdue <= 10 THEN "warning"
    ELSE "critical"

----------------------------------------------------------------------------
(* calculate_collection_patterns *)

\* the interval of every consecutive pair of a sorted entity_data
ConsecutiveIntervals(entity_data) ==
    [i \in 1 .. (Len(entity_data) - 1) |->
        DaysBetween(entity_data[i + 1].t, entity_data[i].t)]

\* the interval test without its upper limit
ReasonableIntervalNoLimit(interval) ==
    MinInterval <= interval

\* the interval test letting a same-day repeat through
ReasonableIntervalFromZero(interval) ==
    0 <= interval /\ interval <= MaxInterval

ReasonableInterval(interval) ==
    MinInterval <= interval /\ interval <= MaxInterval

\* the list `intervals` built by the loop over range(1, len(entity_data))
Intervals(entity_data) ==
    SelectSeq(ConsecutiveIntervals(entity_data), ReasonableInterval)

EntityData(rows, trade_license) ==
    SortValues(Where(rows, "tl", trade_license))

\* (reference_date - (last_collection + timedelta(days=mean))).days, with the
\* mean kept as total/count
DaysOverdue(last_collection, total, count) ==
    ((reference_date - last_collection) * count - total * TicksPerDay)
        \div (count * TicksPerDay)

\* the dict appended to entity_patterns for one trade license
EntityPattern(rows, trade_license) ==
    LET entity_data == EntityData(rows, trade_license)
        intervals == Intervals(entity_data)
        last_row == Last(entity_data)
        last_collection == last_row.t
        days_overdue == DaysOverdue(last_collection, Sum(intervals),
                                    Len(intervals))
    IN  [trade_license |-> trade_license,
         entity_id |-> last_row.eid,
         category |-> last_row.cat,
         area |-> last_row.area,
         collections_count |-> Len(entity_data),
         avg_interval_days |-> Round1(Sum(intervals), Len(intervals)),
         last_collection_date |-> DateOf(last_collection),
         days_since_last |-> DaysBetween(reference_date, last_collection),
         days_overdue |-> Max(0, days_overdue),
         risk_level |-> get_risk_level(days_overdue),
         avg_gallons |-> Round1(Sum(Column(entity_data, "gal")),
                                Len(entity_data))]

HasPattern(rows, trade_license) ==
    LET entity_data == EntityData(rows, trade_license)
    IN  Len(entity_data) >= 2 /\ Intervals(entity_data) # <<>>

EntityPatterns(rows) ==
    LET licenses == SelectSeq(Unique(Column(rows, "tl")),
                              LAMBDA tl : HasPattern(rows, tl))
    IN  [i \in DOMAIN licenses |-> EntityPattern(rows, licenses[i])]

RECURSIVE GroupIntervals(_, _)
\* calculate_category_intervals / calculate_area_intervals: the reasonable
\* intervals of every entity id of the group, concatenated
GroupIntervals(group_data, entity_ids) ==
    IF entity_ids = <<>> THEN <<>>
    ELSE LET entity_data ==
                 SortValues(Where(group_data, "eid", Head(entity_ids)))
         IN  Intervals(entity_data)
                 \o GroupIntervals(group_data, Tail(entity_ids))

calculate_category_intervals(category_data) ==
    GroupIntervals(category_data, Unique(Column(category_data, "eid")))

calculate_area_intervals(area_data) ==
    GroupIntervals(area_data, Unique(Column(area_data, "eid")))

CategoryPattern(rows, category) ==
    LET category_data == Where(rows, "cat", category)
        intervals == calculate_category_intervals(category_data)
    IN  [avg_interval_days |->
             IF intervals # <<>> THEN Round1(Sum(intervals), Len(intervals))
             ELSE 10 * DefaultInterval,
         collections |-> Len(category_data),
         avg_gallons |-> Round1(Sum(Column(category_data, "gal")),
                                Len(category_data))]

GeographicPattern(rows, area) ==
    LET area_data == Where(rows, "area", area)
        intervals == calculate_area_intervals(area_data)
    IN  [avg_interval_days |->
             IF intervals # <<>> THEN Round1(Sum(intervals), Len(intervals))
             ELSE 10 * DefaultInterval,
         collections |-> Len(area_data),
         avg_gallons |-> Round1(Sum(Column(area_data, "gal")),
                                Len(area_data)),
         unique_entities |-> Cardinality(Range(Column(area_data, "eid")))]

calculate_collection_patterns(rows) ==
    [entities |-> EntityPatterns(rows),
     categories |-> [c \in Range(Column(rows, "cat")) |->
                        CategoryPattern(rows, c)],
     geographic |-> [a \in Range(Column(rows, "area")) |->
                        GeographicPattern(rows, a)]]

----------------------------------------------------------------------------
(* Helpers shared by the analyses *)

\* len([e for e in entity_patterns if e['risk_level'] == level])
CountRisk(entity_patterns, level) ==
    Len(SelectSeq(entity_patterns, LAMBDA e : e.risk_level = level))

\* seq[:n]
Take(s, n) == SubSeq(s, 1, IF Len(s) < n THEN Len(s) ELSE n)

RECURSIVE InsertDescending(_, _, _)
InsertDescending(sorted, x, key) ==
    IF sorted = <<>> THEN <<x>>
    ELSE IF key[Last(sorted)] >= key[x] THEN Append(sorted, x)
    ELSE Append(InsertDescending(Front(sorted), x, key), Last(sorted))

RECURSIVE SortedDescending(_, _)
\* sorted(s, key=..., reverse=True): stable, equal keys keep their order;
\* key is the function from an element to its sort key
SortedDescending(s, key) ==
    IF s = <<>> THEN <<>>
    ELSE InsertDescending(SortedDescending(Front(s), key), Last(s), key)

\* nan, what np.mean gives for an empty list: kept apart from every number,
\* the means of intervals and of overdue days being positive
NaN == -1

\* round(np.mean(values), 1) of values held in tenths; nan for no value
MeanOfTenths(values) ==
    IF values = <<>> THEN NaN ELSE RoundHalfEven(Sum(values), Len(values))

\* round(np.mean(values), 1) of integers; nan for no value
MeanOfIntegers(values) ==
    IF values = <<>> THEN NaN ELSE Round1(Sum(values), Len(values))

----------------------------------------------------------------------------
(* generate_delays_analysis *)

CriticalAlert(alert) ==
    [entity_id |-> alert.entity_id,
     category |-> alert.category,
     area |-> alert.area,
     days_overdue |-> alert.days_overdue,
     last_collection |-> alert.last_collection_date,
     expected_interval |-> alert.avg_interval_days]

\* the list critical_alerts_summary
CriticalAlerts(entity_patterns) ==
    LET critical_alerts ==
            SelectSeq(entity_patterns, LAMBDA e : e.risk_level = "critical")
        top == Take(critical_alerts, TopAlerts)
    IN  [i \in DOMAIN top |-> CriticalAlert(top[i])]

\* area_delays / category_delays: one counter record per key met in the loop
GroupDelays(entity_patterns, field) ==
    [k \in Range(Column(entity_patterns, field)) |->
        LET members == Where(entity_patterns, field, k)
        IN  [critical |-> CountRisk(members, "critical"),
             warning |-> CountRisk(members, "warning"),
             total |-> Len(members)]]

\* the ranking that keeps the keys in the order the loop met them
HighRiskUnsorted(entity_patterns, field, limit) ==
    Take(Unique(Column(entity_patterns, field)), limit)

\* sorted(group_delays.keys(), key=critical count, reverse=True)[:limit];
\* the keys come in the order the loop first met them
HighRisk(entity_patterns, field, limit) ==
    LET group_delays == GroupDelays(entity_patterns, field)
        keys == Unique(Column(entity_patterns, field))
        critical == [k \in DOMAIN group_delays |-> group_delays[k].critical]
    IN  Take(SortedDescending(keys, critical), limit)

generate_delays_analysis(p) ==
    LET entity_patterns == p.entities
        risk_summary == [level \in RiskLevels |->
                            CountRisk(entity_patterns, level)]
        delayed == risk_summary["critical"] + risk_summary["warning"]
        overdue == SelectSeq(Column(entity_patterns, "days_overdue"),
                             LAMBDA d : d > 0)
    IN  [risk_summary |-> risk_summary,
         critical_alerts |-> CriticalAlerts(entity_patterns),
         by_area |-> GroupDelays(entity_patterns, "area"),
         by_category |-> GroupDelays(entity_patterns, "category"),
         high_risk_areas |-> HighRisk(entity_patterns, "area", TopAreas),
         high_risk_categories |->
             HighRisk(entity_patterns, "category", TopCategories),
         total_entities_analyzed |-> Len(entity_patterns),
         entities_with_delays |-> delayed,
         delay_rate |-> Round1(100 * delayed, Len(entity_patterns)),
         avg_overdue_days |-> MeanOfIntegers(overdue)]

----------------------------------------------------------------------------
(* generate_entity_intelligence *)

\* category_behaviors[category]
CategoryBehavior(rows, entity_patterns, category) ==
    LET cat_data == Where(rows, "cat", category)
        cat_entities == Where(entity_patterns, "category", category)
        gallons == Column(cat_data, "gal")
    IN  [total_entities |-> Len(cat_entities),
         avg_collection_interval |->
             MeanOfTenths(Column(cat_entities, "avg_interval_days")),
         risk_distribution |->
             [critical |-> CountRisk(cat_entities, "critical"),
              warning |-> CountRisk(cat_entities, "warning"),
              normal |-> CountRisk(cat_entities, "normal")],
         min_gallons |-> CHOOSE g \in Range(gallons) :
                             \A h \in Range(gallons) : g <= h,
         max_gallons |-> CHOOSE g \in Range(gallons) :
                             \A h \in Range(gallons) : g >= h,
         avg_gallons |-> Round1(Sum(gallons), Len(gallons))]

EntityRisk(entity) ==
    [entity_id |-> entity.entity_id,
     category |-> entity.category,
     area |-> entity.area,
     risk_level |-> entity.risk_level,
     days_overdue |-> entity.days_overdue,
     avg_interval |-> entity.avg_interval_days,
     collections_count |-> entity.collections_count,
     avg_gallons |-> entity.avg_gallons]

generate_entity_intelligence(rows, p) ==
    LET entity_patterns == p.entities
        top == Take(entity_patterns, 100)
    IN  [entity_risk_profiles |-> [i \in DOMAIN top |-> EntityRisk(top[i])],
         category_behavior_patterns |->
             [c \in Range(Column(rows, "cat")) |->
                 CategoryBehavior(rows, entity_patterns, c)],
         total_entities_analyzed |-> Len(entity_patterns),
         high_risk_entities |->
             Len(SelectSeq(entity_patterns,
                           LAMBDA e : e.risk_level \in {"critical", "warning"})),
         entities_needing_attention |->
             Len(SelectSeq(entity_patterns, LAMBDA e : e.days_overdue > 5)),
         avg_collection_frequency |->
             MeanOfTenths(Column(entity_patterns, "avg_interval_days"))]

----------------------------------------------------------------------------
(* generate_predictive_patterns *)

\* the match test accepting the days at least the tolerance away
EntityMatchesBeyond(entity, future_day, tolerance) ==
    LET tenths == 10 * (future_day - entity.last_collection_date)
                      - entity.avg_interval_days
    IN  Abs(tenths \div 10) >= tolerance

\* abs((future_date - next_expected).days) <= tolerance, where next_expected
\* is the profile's last_collection_date (a date) plus its rounded
\* avg_interval_days; the code writes the tolerance as the literal 1
EntityMatchesWithin(entity, future_day, tolerance) ==
    LET tenths == 10 * (future_day - entity.last_collection_date)
                      - entity.avg_interval_days
    IN  Abs(tenths \div 10) <= tolerance

\* the match test with a tolerance of two days
EntityMatchesWide(entity, future_day) ==
    LET tenths == 10 * (future_day - entity.last_collection_date)
                      - entity.avg_interval_days
    IN  Abs(tenths \div 10) <= MatchTolerance + 1

EntityMatches(entity, future_day) ==
    EntityMatchesWithin(entity, future_day, MatchTolerance)

\* collections_needed counting also the entities matched the day before
CollectionsNeededSinceYesterday(entity_patterns, future_day) ==
    Len(SelectSeq(entity_patterns,
                  LAMBDA e : \/ EntityMatches(e, future_day)
                             \/ EntityMatches(e, future_day - 1)))

\* collections_needed for one future date
CollectionsNeeded(entity_patterns, future_day) ==
    Len(SelectSeq(entity_patterns, LAMBDA e : EntityMatches(e, future_day)))

\* daily_capacity_needed, keyed by the day number of the future date
DailyCapacityNeeded(entity_patterns) ==
    [d \in (ReferenceDay + 1) .. (ReferenceDay + ForecastDays) |->
        CollectionsNeeded(entity_patterns, d)]

ProviderWorkload(rows, entity_patterns, provider) ==
    LET provider_data == Where(rows, "prov", provider)
        ids == Range(Column(provider_data, "eid"))
        provider_entities ==
            SelectSeq(entity_patterns, LAMBDA e : e.entity_id \in ids)
    IN  [upcoming_week_estimate |->
             Len(SelectSeq(provider_entities,
                           LAMBDA e : e.days_overdue > -7
                                      /\ e.days_overdue <= 0)),
         overdue_collections |->
             Len(SelectSeq(provider_entities, LAMBDA e : e.days_overdue > 0)),
         total_managed_entities |-> Len(provider_entities),
         avg_entity_interval |->
             IF provider_entities # <<>>
             THEN MeanOfTenths(Column(provider_entities, "avg_interval_days"))
             ELSE 10 * DefaultInterval]

CriticalHotspot(entity) ==
    [area |-> entity.area,
     category |-> entity.category,
     days_overdue |-> entity.days_overdue]

\* the peak days taken from the dates in descending order
PeakDemandDaysLatestFirst(daily) ==
    LET days == [i \in 1 .. ForecastDays |->
                    ReferenceDay + ForecastDays + 1 - i]
        top == Take(SortedDescending(days, daily), TopPeakDays)
    IN  [i \in DOMAIN top |-> <<top[i], daily[top[i]]>>]

\* sorted(daily_capacity_needed.items(), key=count, reverse=True)[:10]; the
\* items come in the order the loop over range(1, 31) inserted them
PeakDemandDays(daily) ==
    LET days == [i \in 1 .. ForecastDays |-> ReferenceDay + i]
        top == Take(SortedDescending(days, daily), TopPeakDays)
    IN  [i \in DOMAIN top |-> <<top[i], daily[top[i]]>>]

generate_predictive_patterns(rows, p) ==
    LET entity_patterns == p.entities
        critical_entities ==
            SelectSeq(entity_patterns, LAMBDA e : e.risk_level = "critical")
        hot == Take(critical_entities, TopAlerts)
        daily == DailyCapacityNeeded(entity_patterns)
    IN  [provider_workload_forecast |->
             [pr \in Range(Column(rows, "prov")) |->
                 ProviderWorkload(rows, entity_patterns, pr)],
         next_30_days_forecast |-> daily,
         peak_demand_days |-> PeakDemandDays(daily),
         critical_hotspots |-> [i \in DOMAIN hot |-> CriticalHotspot(hot[i])],
         warning_trends |-> CountRisk(entity_patterns, "warning"),
         escalation_rate |->
             Round1(100 * Len(critical_entities), Len(entity_patterns))]

----------------------------------------------------------------------------
(* Input: the rows a data frame is drawn from *)

Event(tl, eid, cat, area, prov, day, gal) ==
    [tl |-> tl, eid |-> eid, cat |-> cat, area |-> area, prov |-> prov,
     t |-> day * TicksPerDay, gal |-> gal]

\* the same event collected one tick after midnight
Later(event) == [event EXCEPT !.t = @ + 1]

\* events of the first quarter of 2023, as load_q1_2023_data hands them on
QuarterRows ==
    { Event(1, 20, "Restaurant", "Al Quoz", "P1", d, 100) :
          d \in {55, 59, 69, 79, 84} }
    \cup { Later(Event(1, 20, "Restaurant", "Al Quoz", "P1", 84, 60)) }
    \cup { Event(2, 10, "Restaurant", "Deira", "P2", d, 25) : d \in {59, 69} }
    \cup { Event(2, 10, "Hotel", "Deira", "P2", 84, 40) }

\* the same with an event of October 2022, 121 days before 2023-03-01
AnyDateRows ==
    QuarterRows \cup { Event(1, 20, "Restaurant", "Al Quoz", "P1", -62, 100) }

DataFrames(rows) == UNION { [1 .. n -> rows] : n \in 1 .. MaxRows }

NotComputed == [computed |-> FALSE]

----------------------------------------------------------------------------
(* The run of main(): one action per analysis *)

Init ==
    /\ df \in DataFrames(QuarterRows)
    /\ patterns = NotComputed
    /\ delays = NotComputed
    /\ intelligence = NotComputed
    /\ predictive = NotComputed
    /\ pc = "loaded"
    /\ days_overdue_arg = 0
    /\ risk_result = "none"
    /\ csv = <<>>
    /\ now = 0
    /\ reports = <<>>
    /\ volume = NotComputed

CalculateCollectionPatterns ==
    /\ pc = "loaded"
    /\ patterns' = calculate_collection_patterns(df)
    /\ pc' = "patterns"
    /\ UNCHANGED <<df, delays, intelligence, predictive,
                   days_overdue_arg, risk_result, csv, now, reports, volume>>

\* generate_delays_analysis divides by len(entity_patterns): with no entity
\* pattern the ZeroDivisionError ends the run
GenerateDelaysAnalysis ==
    /\ pc = "patterns"
    /\ patterns.entities # <<>>
    /\ delays' = generate_delays_analysis(patterns)
    /\ pc' = "delays"
    /\ UNCHANGED <<df, patterns, intelligence, predictive,
                   days_overdue_arg, risk_result, csv, now, reports, volume>>

DelaysAnalysisRaises ==
    /\ pc = "patterns"
    /\ patterns.entities = <<>>
    /\ pc' = "raised"
    /\ UNCHANGED <<df, patterns, delays, intelligence, predictive,
                   days_overdue_arg, risk_result, csv, now, reports, volume>>

GenerateEntityIntelligence ==
    /\ pc = "delays"
    /\ intelligence' = generate_entity_intelligence(df, patterns)
    /\ pc' = "intelligence"
    /\ UNCHANGED <<df, patterns, delays, predictive,
                   days_overdue_arg, risk_result, csv, now, reports, volume>>

GeneratePredictivePatterns ==
    /\ pc = "intelligence"
    /\ predictive' = generate_predictive_patterns(df, patterns)
    /\ pc' = "done"
    /\ UNCHANGED <<df, patterns, delays, intelligence,
                   days_overdue_arg, risk_result, csv, now, reports, volume>>

Next ==
    \/ CalculateCollectionPatterns
    \/ GenerateDelaysAnalysis
    \/ DelaysAnalysisRaises
    \/ GenerateEntityIntelligence
    \/ GeneratePredictivePatterns

Spec == Init /\ [][Next]_vars

----------------------------------------------------------------------------
(* The same run on a data frame that was not cut to the quarter *)

InitAnyDates ==
    /\ df \in DataFrames(AnyDateRows)
    /\ patterns = NotComputed
    /\ delays = NotComputed
    /\ intelligence = NotComputed
    /\ predictive = NotComputed
    /\ pc = "loaded"
    /\ days_overdue_arg = 0
    /\ risk_result = "none"
    /\ csv = <<>>
    /\ now = 0
    /\ reports = <<>>
    /\ volume = NotComputed

SpecAnyDates == InitAnyDates /\ [][Next]_vars

----------------------------------------------------------------------------
(* get_risk_level on its own: the argument is any integer of the range *)

InitRisk ==
    /\ df = <<>>
    /\ patterns = NotComputed
    /\ delays = NotComputed
    /\ intelligence = NotComputed
    /\ predictive = NotComputed
    /\ pc = "risk_call"
    /\ days_overdue_arg \in (-MaxOverdue) .. MaxOverdue
    /\ risk_result = "none"
    /\ csv = <<>>
    /\ now = 0
    /\ reports = <<>>
    /\ volume = NotComputed

GetRiskLevel ==
    /\ pc = "risk_call"
    /\ risk_result' = get_risk_level(days_overdue_arg)
    /\ pc' = "risk_return"
    /\ UNCHANGED <<df, patterns, delays, intelligence, predictive,
                   days_overdue_arg, csv, now, reports, volume>>

NextRisk ==
    \/ GetRiskLevel

SpecRisk == InitRisk /\ [][NextRisk]_vars

----------------------------------------------------------------------------
(* The run on events whose entity id and trade license do not pair up:     *)
(* entity 20 is recorded under licenses 1 and 2, license 1 also holds the  *)
(* events of entity 30                                                     *)

KeyRows ==
    { Event(1, 20, "Restaurant", "Al Quoz", "P1", d, 100) : d \in {59, 69} }
    \cup { Event(2, 20, "Restaurant", "Al Quoz", "P1", d, 100) :
               d \in {64, 79} }
    \cup { Event(1, 30, "Hotel", "Deira", "P2", d, 40) : d \in {62, 84} }

InitKeys ==
    /\ df \in DataFrames(KeyRows)
    /\ patterns = NotComputed
    /\ delays = NotComputed
    /\ intelligence = NotComputed
    /\ predictive = NotComputed
    /\ pc = "loaded"
    /\ days_overdue_arg = 0
    /\ risk_result = "none"
    /\ csv = <<>>
    /\ now = 0
    /\ reports = <<>>
    /\ volume = NotComputed

SpecKeys == InitKeys /\ [][Next]_vars

----------------------------------------------------------------------------
(* The run on two entities of one category and one area, the first with up *)
(* to three events and the second with up to two                           *)

MaxGroupRows == 5

GroupRows ==
    { Event(1, 20, "Restaurant", "Al Quoz", "P1", d, 100) :
          d \in {59, 69, 84} }
    \cup { Event(2, 10, "Restaurant", "Al Quoz", "P2", d, 25) :
               d \in {59, 84} }

InitGroups ==
    /\ df \in UNION { [1 .. n -> GroupRows] : n \in 1 .. MaxGroupRows }
    /\ patterns = NotComputed
    /\ delays = NotComputed
    /\ intelligence = NotComputed
    /\ predictive = NotComputed
    /\ pc = "loaded"
    /\ days_overdue_arg = 0
    /\ risk_result = "none"
    /\ csv = <<>>
    /\ now = 0
    /\ reports = <<>>
    /\ volume = NotComputed

SpecGroups == InitGroups /\ [][Next]_vars

----------------------------------------------------------------------------
(* generate_delays_analysis on its own: it is given one entity pattern for *)
(* each of up to MaxGroups areas, two successive areas sharing a category, *)
(* and any of these entities may be critical                               *)

MaxGroups == 11

\* the entity pattern of an area
RankingEntity(group, critical) ==
    [trade_license |-> group,
     entity_id |-> group,
     category |-> (group + 1) \div 2,
     area |-> group,
     collections_count |-> 2,
     avg_interval_days |-> 100,
     last_collection_date |-> IF critical THEN 69 ELSE 84,
     days_since_last |-> IF critical THEN 30 ELSE 15,
     days_overdue |-> IF critical THEN 20 ELSE 5,
     risk_level |-> get_risk_level(IF critical THEN 20 ELSE 5),
     avg_gallons |-> 1000]

InitRanking ==
    /\ \E n \in 1 .. MaxGroups :
           \E critical_areas \in SUBSET (1 .. n) :
               patterns = [entities |->
                               [group \in 1 .. n |->
                                   RankingEntity(group,
                                                 group \in critical_areas)],
                           categories |-> <<>>,
                           geographic |-> <<>>]
    /\ df = <<>>
    /\ delays = NotComputed
    /\ intelligence = NotComputed
    /\ predictive = NotComputed
    /\ pc = "patterns"
    /\ days_overdue_arg = 0
    /\ risk_result = "none"
    /\ csv = <<>>
    /\ now = 0
    /\ reports = <<>>
    /\ volume = NotComputed

NextRanking == GenerateDelaysAnalysis

SpecRanking == InitRanking /\ [][NextRanking]_vars

----------------------------------------------------------------------------
(* main() from the CSV file on: load_q1_2023_data, then the analyses.  A   *)
(* row of the file holds in `collected` what pd.to_datetime(...,           *)
(* errors='coerce') makes of its Collected Date cell: <<t>> for a          *)
(* timestamp, <<>> for NaT (an empty or unparseable cell)                  *)

Parsed(event) ==
    [tl |-> event.tl, eid |-> event.eid, cat |-> event.cat,
     area |-> event.area, prov |-> event.prov, gal |-> event.gal,
     collected |-> <<event.t>>]

Unparseable(event) == [Parsed(event) EXCEPT !.collected = <<>>]

\* (Collected Date >= q1_2023_start) & (Collected Date <= q1_2023_end); both
\* comparisons are False for NaT, and the end is midnight of 2023-03-31
InQuarter(row) ==
    /\ row.collected # <<>>
    /\ row.collected[1] >= Q1StartDay * TicksPerDay
    /\ row.collected[1] <= Q1EndDay * TicksPerDay

load_q1_2023_data(rows) ==
    LET df_q1 == SelectSeq(rows, InQuarter)
    IN  [i \in DOMAIN df_q1 |->
            [tl |-> df_q1[i].tl, eid |-> df_q1[i].eid, cat |-> df_q1[i].cat,
             area |-> df_q1[i].area, prov |-> df_q1[i].prov,
             t |-> df_q1[i].collected[1], gal |-> df_q1[i].gal]]

CsvRows ==
    { Parsed(Event(1, 20, "Restaurant", "Al Quoz", "P1", d, 100)) :
          d \in {-1, 59, 69, 89, 90} }
    \cup { Parsed(Later(Event(1, 20, "Restaurant", "Al Quoz", "P1", 89, 100))),
           Unparseable(Event(1, 20, "Restaurant", "Al Quoz", "P1", 0, 100)),
           Parsed(Event(2, 10, "Hotel", "Deira", "P2", 59, 40)),
           Unparseable(Event(2, 10, "Hotel", "Deira", "P2", 0, 40)) }

InitLoad ==
    /\ csv \in DataFrames(CsvRows)
    /\ df = <<>>
    /\ patterns = NotComputed
    /\ delays = NotComputed
    /\ intelligence = NotComputed
    /\ predictive = NotComputed
    /\ pc = "start"
    /\ days_overdue_arg = 0
    /\ risk_result = "none"
    /\ now = 0
    /\ reports = <<>>
    /\ volume = NotComputed

LoadQ1Data ==
    /\ pc = "start"
    /\ df' = load_q1_2023_data(csv)
    /\ pc' = "loaded"
    /\ UNCHANGED <<patterns, delays, intelligence, predictive,
                   days_overdue_arg, risk_result, csv, now, reports, volume>>

NextLoad ==
    \/ LoadQ1Data
    \/ CalculateCollectionPatterns
    \/ GenerateDelaysAnalysis
    \/ DelaysAnalysisRaises
    \/ GenerateEntityIntelligence
    \/ GeneratePredictivePatterns

SpecLoad == InitLoad /\ [][NextLoad]_vars

----------------------------------------------------------------------------
(* data_analysis.py run several times on the same file: each run writes    *)
(* its markdown report, and the wall clock, counted in seconds, advances   *)
(* as it will between the runs                                             *)

MaxRuns == 2

MaxClock == 2

\* the report, as far as it depends on its inputs: the record count of the
\* summary, and the footer "Report generated on {datetime.now()...}"
generate_markdown_report(rows, clock) ==
    [total_records |-> Len(rows), generated_on |-> clock]

InitReport ==
    /\ df \in DataFrames(AnyDateRows)
    /\ patterns = NotComputed
    /\ delays = NotComputed
    /\ intelligence = NotComputed
    /\ predictive = NotComputed
    /\ pc = "report"
    /\ days_overdue_arg = 0
    /\ risk_result = "none"
    /\ csv = <<>>
    /\ now = 0
    /\ reports = <<>>
    /\ volume = NotComputed

GenerateMarkdownReport ==
    /\ pc = "report"
    /\ Len(reports) < MaxRuns
    /\ reports' = Append(reports, generate_markdown_report(df, now))
    /\ UNCHANGED <<df, patterns, delays, intelligence, predictive, pc,
                   days_overdue_arg, risk_result, csv, now, volume>>

ClockTick ==
    /\ pc = "report"
    /\ now < MaxClock
    /\ now' = now + 1
    /\ UNCHANGED <<df, patterns, delays, intelligence, predictive, pc,
                   days_overdue_arg, risk_result, csv, reports, volume>>

NextReport ==
    \/ GenerateMarkdownReport
    \/ ClockTick

SpecReport == InitReport /\ [][NextReport]_vars

----------------------------------------------------------------------------
(* The run on entities due around the reference date: license 1 with       *)
(* events 14 or 15 days apart late in March, expected on April 8, 9 or 10, *)
(* and license 2 expected on April 20                                      *)

DueRows ==
    { Event(1, 20, "Restaurant", "Al Quoz", "P1", d, 100) :
          d \in {70, 84, 85} }
    \cup { Later(Event(1, 20, "Restaurant", "Al Quoz", "P1", 84, 100)) }
    \cup { Event(2, 10, "Hotel", "Deira", "P2", d, 40) : d \in {59, 84} }

InitDue ==
    /\ df \in DataFrames(DueRows)
    /\ patterns = NotComputed
    /\ delays = NotComputed
    /\ intelligence = NotComputed
    /\ predictive = NotComputed
    /\ pc = "loaded"
    /\ days_overdue_arg = 0
    /\ risk_result = "none"
    /\ csv = <<>>
    /\ now = 0
    /\ reports = <<>>
    /\ volume = NotComputed

SpecDue == InitDue /\ [][Next]_vars

----------------------------------------------------------------------------
(* The volume distribution on its own: generate_volume_analysis of         *)
(* generate_pie_insights.py and analyze_volume_patterns of                 *)
(* data_analysis.py, on frames whose gallons lie on and around the limits  *)
(* of the ranges                                                           *)

\* volume_ranges of generate_volume_analysis: (min_val, max_val, label), the
\* last range having float('inf') for max_val
volume_ranges ==
    << <<0, 15, "0-15">>, <<16, 25, "16-25">>, <<26, 50, "26-50">>,
       <<51, 100, "51-100">>, <<101, 200, "101-200">>,
       <<201, 500, "201-500">>, <<501, "500+">> >>

\* volume_ranges of analyze_volume_patterns
report_volume_ranges ==
    << <<0, 10, "0-10">>, <<11, 25, "11-25">>, <<26, 50, "26-50">>,
       <<51, 100, "51-100">>, <<101, 200, "101-200">>,
       <<201, 500, "201-500">>, <<501, "500+">> >>

\* mask = (gallons >= min_val) & (gallons < max_val), the second test always
\* true when max_val is float('inf')
InRange(g, range) ==
    IF Len(range) = 3 THEN g >= range[1] /\ g < range[2]
    ELSE g >= range[1]

\* one entry of the distribution; percentage = round(count / len * 100, 2)
\* is kept in hundredths
VolumeBucket(gallons, range) ==
    LET inside == SelectSeq(gallons, LAMBDA g : InRange(g, range))
    IN  [count |-> Len(inside),
         percentage |-> RoundHalfEven(10000 * Len(inside), Len(gallons)),
         total_gallons |-> Sum(inside)]

\* the dict distribution / volume_distribution, keyed by label
VolumeDistribution(gallons, ranges) ==
    [label \in {Last(ranges[i]) : i \in DOMAIN ranges} |->
        VolumeBucket(gallons,
                     ranges[CHOOSE i \in DOMAIN ranges :
                                Last(ranges[i]) = label])]

generate_volume_analysis(rows) ==
    VolumeDistribution(Column(rows, "gal"), volume_ranges)

analyze_volume_patterns(rows) ==
    VolumeDistribution(Column(rows, "gal"), report_volume_ranges)

VolumeRows ==
    { Event(1, 20, "Restaurant", "Al Quoz", "P1", 59, g) :
          g \in {0, 10, 12, 15, 16, 25, 26, 100, 500, 501} }

InitVolume ==
    /\ df \in DataFrames(VolumeRows)
    /\ patterns = NotComputed
    /\ delays = NotComputed
    /\ intelligence = NotComputed
    /\ predictive = NotComputed
    /\ pc \in {"volume_insights", "volume_report"}
    /\ days_overdue_arg = 0
    /\ risk_result = "none"
    /\ csv = <<>>
    /\ now = 0
    /\ reports = <<>>
    /\ volume = NotComputed

GenerateVolumeAnalysis ==
    /\ pc = "volume_insights"
    /\ volume' = generate_volume_analysis(df)
    /\ pc' = "volume_done"
    /\ UNCHANGED <<df, patterns, delays, intelligence, predictive,
                   days_overdue_arg, risk_result, csv, now, reports>>

AnalyzeVolumePatterns ==
    /\ pc = "volume_report"
    /\ volume' = analyze_volume_patterns(df)
    /\ pc' = "volume_done"
    /\ UNCHANGED <<df, patterns, delays, intelligence, predictive,
                   days_overdue_arg, risk_result, csv, now, reports>>

NextVolume ==
    \/ GenerateVolumeAnalysis
    \/ AnalyzeVolumePatterns

SpecVolume == InitVolume /\ [][NextVolume]_vars

----------------------------------------------------------------------------
(* Vocabulary of the properties *)

PatternsComputed == pc \in {"patterns", "delays", "intelligence", "done", "raised"}

DelaysComputed == pc \in {"delays", "intelligence", "done"}

IntelligenceComputed == pc \in {"intelligence", "done"}

PredictiveComputed == pc = "done"

Profiles == patterns.entities

Horizon == (ReferenceDay + 1) .. (ReferenceDay + ForecastDays)

\* the events of one trade license in ascending collected_at order
EventsOf(trade_license) == EntityData(df, trade_license)

\* whole days between successive events of one trade license
GapsOf(trade_license) == ConsecutiveIntervals(EventsOf(trade_license))

\* the gaps g with 1 <= g <= 120
IncludedGaps(trade_license) ==
    SelectSeq(GapsOf(trade_license), LAMBDA g : 1 <= g /\ g <= 120)

GapTotal(trade_license) == Sum(IncludedGaps(trade_license))

GapCount(trade_license) == Len(IncludedGaps(trade_license))

LastCollection(trade_license) == Last(EventsOf(trade_license)).t

\* GapCount times the ticks from the expected next collection (last
\* collection plus the exact mean gap) to the reference date
ScaledLateness(trade_license) ==
    (reference_date - LastCollection(trade_license)) * GapCount(trade_license)
        - GapTotal(trade_license) * TicksPerDay

\* d is the floor, in whole days, of the lateness of the trade license
IsFloorOfLateness(d, trade_license) ==
    LET unit == GapCount(trade_license) * TicksPerDay
    IN  d * unit <= ScaledLateness(trade_license)
        /\ ScaledLateness(trade_license) < (d + 1) * unit

RECURSIVE SumOfCounts(_, _)
SumOfCounts(f, keys) ==
    IF keys = {} THEN 0
    ELSE LET k == CHOOSE k \in keys : TRUE
         IN  f[k] + SumOfCounts(f, keys \ {k})

\* the forecast days on which the match test counts a profile
MatchedDays(e) == {d \in Horizon : EntityMatches(e, d)}

----------------------------------------------------------------------------
(* C1 *)

\* C1: get_risk_level is total over the integers with exact boundaries:
\* normal iff days_overdue <= 0, upcoming iff 1..5, warning iff 6..10,
\* critical iff >= 11.
C1_RiskBoundariesExact ==
    pc = "risk_return" =>
        /\ risk_result \in RiskLevels
        /\ risk_result = "normal" <=> days_overdue_arg <= 0
        /\ risk_result = "upcoming" <=>
               (1 <= days_overdue_arg /\ days_overdue_arg <= 5)
        /\ risk_result = "warning" <=>
               (6 <= days_overdue_arg /\ days_overdue_arg <= 10)
        /\ risk_result = "critical" <=> days_overdue_arg >= 11

C1_Witness ==
    pc = "risk_return" /\ days_overdue_arg = 5 /\ risk_result = "upcoming"

----------------------------------------------------------------------------
(* C2 *)

----------------------------------------------------------------------------
(* C3 *)

\* C3: the stored days_overdue of every profile is (reference_date -
\* expected_next) in whole days, expected_next being the last collection plus
\* the mean gap, and so is negative whenever expected_next lies after the
\* reference date.
C3_DaysOverdueIsSigned ==
    PatternsComputed =>
        \A i \in DOMAIN Profiles :
            LET e == Profiles[i]
            IN  /\ IsFloorOfLateness(e.days_overdue, e.trade_license)
                /\ (ScaledLateness(e.trade_license) < 0 => e.days_overdue < 0)

----------------------------------------------------------------------------
(* C4 *)

\* C4: in every category group the counts of risk_distribution sum to
\* total_entities, and to 0 for a group without a profiled entity.
C4_RiskCountsSumToTotal ==
    IntelligenceComputed =>
        \A c \in DOMAIN intelligence.category_behavior_patterns :
            LET group == intelligence.category_behavior_patterns[c]
            IN  SumOfCounts(group.risk_distribution,
                            DOMAIN group.risk_distribution)
                    = group.total_entities

----------------------------------------------------------------------------
(* C5 *)

\* C5: risk_distribution of every group holds one count for each of the four
\* tiers, each the number of member entities of that tier.
C5_RiskDistributionHasFourTiers ==
    IntelligenceComputed =>
        \A c \in DOMAIN intelligence.category_behavior_patterns :
            LET distribution ==
                    intelligence.category_behavior_patterns[c].risk_distribution
            IN  /\ DOMAIN distribution = RiskLevels
                /\ \A level \in RiskLevels :
                       distribution[level]
                           = Cardinality({i \in DOMAIN Profiles :
                                 /\ Profiles[i].category = c
                                 /\ Profiles[i].risk_level = level})

----------------------------------------------------------------------------
(* C6 *)

\* C6: the critical-alert list holds only critical entities, in descending
\* days_overdue with ties in ascending entity identifier, cut to the first 20
\* of that order, so no critical entity left out is more overdue than a
\* listed one.
C6_AlertsRankedByOverdue ==
    DelaysComputed =>
        LET alerts == delays.critical_alerts
            critical == {i \in DOMAIN Profiles :
                            Profiles[i].risk_level = "critical"}
            listed == {i \in critical :
                          \E k \in DOMAIN alerts :
                              alerts[k] = CriticalAlert(Profiles[i])}
        IN  /\ \A k \in DOMAIN alerts :
                   \E i \in critical : alerts[k] = CriticalAlert(Profiles[i])
            /\ \A j, k \in DOMAIN alerts :
                   j < k =>
                       \/ alerts[j].days_overdue > alerts[k].days_overdue
                       \/ /\ alerts[j].days_overdue = alerts[k].days_overdue
                          /\ alerts[j].entity_id <= alerts[k].entity_id
            /\ Len(alerts) = IF Cardinality(critical) < 20
                             THEN Cardinality(critical) ELSE 20
            /\ \A i \in critical \ listed :
                   \A k \in DOMAIN alerts :
                       alerts[k].days_overdue >= Profiles[i].days_overdue

----------------------------------------------------------------------------
(* C7 *)

\* expected_next of the profile (last collection plus the exact mean gap) lies
\* within one day of day d, on either side
WithinOneDayOf(e, d) ==
    LET n == GapCount(e.trade_license)
        expected == LastCollection(e.trade_license) * n
                        + GapTotal(e.trade_license) * TicksPerDay
    IN  Abs(d * TicksPerDay * n - expected) <= TicksPerDay * n

\* C7: the forecast count of every day d of the horizon is the number of
\* profiled entities whose expected_next lies within 1 day of d, symmetric on
\* both sides, fractional expected_next included.
C7_ForecastCountsWithinOneDay ==
    PredictiveComputed =>
        \A d \in Horizon :
            predictive.next_30_days_forecast[d]
                = Cardinality({i \in DOMAIN Profiles :
                                  WithinOneDayOf(Profiles[i], d)})

----------------------------------------------------------------------------
(* C8 *)

----------------------------------------------------------------------------
(* C9 *)

\* the events of the trade license fall on day offsets {0, 10, 25} when the
\* reference date is day 40
IsScenarioE1(trade_license) ==
    [i \in DOMAIN EventsOf(trade_license) |-> EventsOf(trade_license)[i].t]
        = << (ReferenceDay - 40) * TicksPerDay,
             (ReferenceDay - 30) * TicksPerDay,
             (ReferenceDay - 15) * TicksPerDay >>

\* C9: events at day offsets {0, 10, 25} with the reference date at day 40
\* give avg_interval_days 12.5, days_overdue 2 and risk_level upcoming, and in
\* general days_overdue is the floor of the fractional difference between the
\* reference date and expected_next.
C9_DaysOverdueIsFloor ==
    PatternsComputed =>
        \A i \in DOMAIN Profiles :
            LET e == Profiles[i]
            IN  /\ IsScenarioE1(e.trade_license) =>
                       /\ e.avg_interval_days = 125
                       /\ e.days_overdue = 2
                       /\ e.risk_level = "upcoming"
                /\ IsFloorOfLateness(e.days_overdue, e.trade_license)

----------------------------------------------------------------------------
(* C10 *)

Licenses == Range(Column(df, "tl"))

\* a single event, or no gap between 1 and 120 days
HasNoValidGap(trade_license) == GapCount(trade_license) = 0

ProfiledIds == {Profiles[i].entity_id : i \in DOMAIN Profiles}

----------------------------------------------------------------------------
(* C11 *)

EntityIds == Range(Column(df, "eid"))

\* the events of one entity id in ascending collected_at order, whichever
\* trade license each was recorded under
EventsOfEntity(entity_id) == SortValues(Where(df, "eid", entity_id))

EntityHasValidGap(entity_id) ==
    \E i \in 1 .. (Len(EventsOfEntity(entity_id)) - 1) :
        LET gap == DaysBetween(EventsOfEntity(entity_id)[i + 1].t,
                               EventsOfEntity(entity_id)[i].t)
        IN  1 <= gap /\ gap <= 120

ProfilesOfEntity(entity_id) ==
    {i \in DOMAIN Profiles : Profiles[i].entity_id = entity_id}

\* C11: an entity id with at least one valid interval gets exactly one
\* profile, any other entity id none, and the profile counts the events of
\* that entity id alone and ends at its last event, whichever trade license
\* the events were recorded under.
C11_OneProfilePerEntityId ==
    PatternsComputed =>
        \A entity_id \in EntityIds :
            /\ Cardinality(ProfilesOfEntity(entity_id))
                   = IF EntityHasValidGap(entity_id) THEN 1 ELSE 0
            /\ \A i \in ProfilesOfEntity(entity_id) :
                   /\ Profiles[i].collections_count
                          = Len(EventsOfEntity(entity_id))
                   /\ Profiles[i].last_collection_date
                          = DateOf(Last(EventsOfEntity(entity_id)).t)

----------------------------------------------------------------------------
(* C12 *)

\* the avg_interval_days of the profiles whose field has the value
MemberAverages(field, value) ==
    Column(Where(Profiles, field, value), "avg_interval_days")

\* v is the mean of the values to the nearest tenth (all held in tenths)
IsMeanToTenth(v, values) ==
    LET distance == Abs(v * Len(values) - Sum(values))
    IN  2 * distance <= Len(values)

\* C12: for every category and every area with at least one profile, the
\* group's average interval is the unweighted mean of its member profiles'
\* average intervals (to the tenth the output keeps), and the two places
\* that report a category's average interval give the same value.
C12_GroupAverageIsUnweightedMean ==
    IntelligenceComputed =>
        /\ \A c \in DOMAIN patterns.categories :
               MemberAverages("category", c) # <<>> =>
                   /\ IsMeanToTenth(patterns.categories[c].avg_interval_days,
                                    MemberAverages("category", c))
                   /\ intelligence.category_behavior_patterns[c]
                          .avg_collection_interval
                          = patterns.categories[c].avg_interval_days
        /\ \A a \in DOMAIN patterns.geographic :
               MemberAverages("area", a) # <<>> =>
                   IsMeanToTenth(patterns.geographic[a].avg_interval_days,
                                 MemberAverages("area", a))

----------------------------------------------------------------------------
(* C13 *)

\* the areas or categories of the profiles
GroupsBy(field) == {Profiles[i][field] : i \in DOMAIN Profiles}

\* the number of critical profiles of a group
CriticalCount(field, group) ==
    Cardinality({i \in DOMAIN Profiles :
                    /\ Profiles[i][field] = group
                    /\ Profiles[i].risk_level = "critical"})

\* ranking lists limit of the groups, or all when there are fewer, each
\* once, in non-increasing order of critical count, and leaves out no group
\* with more critical profiles than a listed one
IsCriticalRanking(ranking, field, limit) ==
    /\ Len(ranking) = IF Cardinality(GroupsBy(field)) < limit
                      THEN Cardinality(GroupsBy(field)) ELSE limit
    /\ \A i \in DOMAIN ranking : ranking[i] \in GroupsBy(field)
    /\ \A i, j \in DOMAIN ranking :
           i < j => /\ ranking[i] # ranking[j]
                    /\ CriticalCount(field, ranking[i])
                           >= CriticalCount(field, ranking[j])
    /\ \A group \in GroupsBy(field) \ Range(ranking) :
           \A i \in DOMAIN ranking :
               CriticalCount(field, ranking[i])
                   >= CriticalCount(field, group)

\* C13: high_risk_areas lists the 10 areas, and high_risk_categories the 5
\* categories, with the most critical entities, in non-increasing order of
\* that count, so no omitted group has more critical entities than a listed
\* one.
C13_RankingsByCriticalCount ==
    DelaysComputed =>
        /\ IsCriticalRanking(delays.high_risk_areas, "area", 10)
        /\ IsCriticalRanking(delays.high_risk_categories, "category", 5)

\* both rankings are truncated, and the areas listed have different counts
C13_Witness ==
    /\ DelaysComputed
    /\ Cardinality(GroupsBy("area")) > 10
    /\ Cardinality(GroupsBy("category")) > 5
    /\ CriticalCount("area", delays.high_risk_areas[1])
           > CriticalCount("area", Last(delays.high_risk_areas))
    /\ CriticalCount("area", 1) = 0
    /\ 1 \in Range(delays.high_risk_areas)

----------------------------------------------------------------------------
(* C14 *)

\* item a = <<day, count>> is ranked before item b: a higher count, or the
\* same count and an earlier date
RankedBefore(a, b) ==
    a[2] > b[2] \/ (a[2] = b[2] /\ a[1] < b[1])

PeakDays == {predictive.peak_demand_days[i][1] :
                 i \in DOMAIN predictive.peak_demand_days}

\* C14: peak_demand_days holds 10 forecast days with their counts, in
\* descending order of count and, at equal count, ascending order of date,
\* and every forecast day left out is ranked after every day listed.
C14_PeakDaysTopTenEarliestFirst ==
    PredictiveComputed =>
        LET peak == predictive.peak_demand_days
            daily == predictive.next_30_days_forecast
        IN  /\ Len(peak) = 10
            /\ \A i \in DOMAIN peak :
                   /\ peak[i][1] \in Horizon
                   /\ peak[i][2] = daily[peak[i][1]]
            /\ \A i, j \in DOMAIN peak : i < j => RankedBefore(peak[i], peak[j])
            /\ \A d \in Horizon \ PeakDays :
                   \A i \in DOMAIN peak : RankedBefore(peak[i], <<d, daily[d]>>)

\* two entities are due on the first peak day, the days of equal count that
\* follow it come in date order, and the list is cut among days of count 0
C14_Witness ==
    /\ PredictiveComputed
    /\ predictive.peak_demand_days[1][2] = 2
    /\ predictive.peak_demand_days[2][2] = 2
    /\ predictive.peak_demand_days[1][1] > ReferenceDay + 1
    /\ predictive.peak_demand_days[10][2] = 0
    /\ \E d \in Horizon \ PeakDays : predictive.next_30_days_forecast[d] = 0

----------------------------------------------------------------------------
(* C15 *)

\* C15: the run never ends in an exception: when no entity has a valid
\* interval, so that the list of entity patterns is empty, the delay
\* analysis and the predictive analysis still return their result.
C15_NeverRaises == pc # "raised"

----------------------------------------------------------------------------
(* C16 *)

Categories == Range(Column(df, "cat"))

Areas == Range(Column(df, "area"))

Providers == Range(Column(df, "prov"))

\* the counters of a group of the delay analysis are there and all zero
IsZeroDelayGroup(group_delays, group) ==
    /\ group \in DOMAIN group_delays
    /\ group_delays[group].total = 0
    /\ group_delays[group].critical = 0
    /\ group_delays[group].warning = 0

\* C16: a category or an area with events but no profiled entity has a
\* group profile in the output whose entity count, average interval and
\* risk counts are all zero; none is NaN and none is missing.
C16_EmptyGroupIsZeroValued ==
    IntelligenceComputed =>
        /\ \A c \in Categories :
               MemberAverages("category", c) = <<>> =>
                   LET behavior == intelligence.category_behavior_patterns[c]
                   IN  /\ behavior.total_entities = 0
                       /\ behavior.avg_collection_interval = 0
                       /\ \A level \in DOMAIN behavior.risk_distribution :
                              behavior.risk_distribution[level] = 0
                       /\ IsZeroDelayGroup(delays.by_category, c)
        /\ \A a \in Areas :
               MemberAverages("area", a) = <<>> =>
                   IsZeroDelayGroup(delays.by_area, a)

----------------------------------------------------------------------------
(* C17 *)

\* the rows of the file, of the quarter or without a parseable date, whose
\* field has the value
RetainedRows(field, value) ==
    SelectSeq(csv, LAMBDA row : /\ row[field] = value
                                /\ (row.collected = <<>> \/ InQuarter(row)))

\* the group pattern is there and aggregates exactly the retained rows
AggregatesRetainedRows(group_patterns, field, value) ==
    /\ value \in DOMAIN group_patterns
    /\ group_patterns[value].collections = Len(RetainedRows(field, value))
    /\ group_patterns[value].avg_gallons
           = Round1(Sum(Column(RetainedRows(field, value), "gal")),
                    Len(RetainedRows(field, value)))

\* C17: an event whose collected date is missing or unparseable is left out
\* of the interval computation of its entity, yet it is counted in the
\* collections and the gallons average of its category and of its area.
C17_UndatedEventStillAggregated ==
    PatternsComputed =>
        \A i \in DOMAIN csv :
            csv[i].collected = <<>> =>
                /\ AggregatesRetainedRows(patterns.categories, "cat",
                                          csv[i].cat)
                /\ AggregatesRetainedRows(patterns.geographic, "area",
                                          csv[i].area)
                /\ \A k \in DOMAIN Profiles :
                       Profiles[k].trade_license = csv[i].tl =>
                           Profiles[k].collections_count
                               = Len(SelectSeq(csv,
                                     LAMBDA row : /\ row.tl = csv[i].tl
                                                  /\ InQuarter(row)))

----------------------------------------------------------------------------
(* C18 *)

\* the group has no entity pattern and its events give no valid interval
HasNoEstimate(field, profile_field, group) ==
    /\ MemberAverages(profile_field, group) = <<>>
    /\ GroupIntervals(Where(df, field, group),
                      Unique(Column(Where(df, field, group), "eid"))) = <<>>

\* the provider serves no profiled entity
ServesNoProfile(provider) ==
    \A i \in DOMAIN Profiles :
        Profiles[i].entity_id
            \notin Range(Column(Where(df, "prov", provider), "eid"))

\* C18: for a category, an area or a provider without an interval estimate
\* of its own, every place of the output that reports the group's average
\* interval reports the default of 14 days.
C18_FallbackIsDefaultEverywhere ==
    PredictiveComputed =>
        /\ \A c \in Categories :
               HasNoEstimate("cat", "category", c) =>
                   /\ patterns.categories[c].avg_interval_days = 140
                   /\ intelligence.category_behavior_patterns[c]
                          .avg_collection_interval = 140
        /\ \A a \in Areas :
               HasNoEstimate("area", "area", a) =>
                   patterns.geographic[a].avg_interval_days = 140
        /\ \A pr \in Providers :
               ServesNoProfile(pr) =>
                   predictive.provider_workload_forecast[pr]
                       .avg_entity_interval = 140

----------------------------------------------------------------------------
(* C19 *)

\* C19: two runs on the same input give identical output: no value of the
\* output depends on the wall clock at the time of the run.
C19_RunsGiveIdenticalOutput ==
    \A i, j \in DOMAIN reports : reports[i] = reports[j]

----------------------------------------------------------------------------
(* C20 *)

MaxTolerance == 3

\* the number of forecast days on which the match test, taken with the
\* given tolerance, counts a profile
MatchCount(e, tolerance) ==
    Cardinality({d \in Horizon : EntityMatchesWithin(e, d, tolerance)})

----------------------------------------------------------------------------
(* C21 *)

\* the trade license has exactly two events, the second d whole days (and
\* less than one day more) after the first
HasTwoEventsApart(trade_license, d) ==
    LET rows == {i \in DOMAIN df : df[i].tl = trade_license}
    IN  /\ Cardinality(rows) = 2
        /\ \E i, j \in rows :
               /\ i # j
               /\ d * TicksPerDay <= df[j].t - df[i].t
               /\ df[j].t - df[i].t < (d + 1) * TicksPerDay

----------------------------------------------------------------------------
(* C22 *)

\* C22: every distinct entity of the input is accounted for exactly once,
\* by a profile or in a tally of skipped entities reported with the
\* analysis, so that profiled plus skipped entities equal the distinct
\* entities.
C22_ProfiledPlusSkippedIsAll ==
    DelaysComputed =>
        /\ "skipped_entities" \in DOMAIN delays
        /\ delays.total_entities_analyzed + delays.skipped_entities
               = Cardinality(Licenses)

----------------------------------------------------------------------------
(* C23 *)

\* the instant, in ticks times 10 times the number of included gaps, that
\* the profile's risk is computed from: the last collection plus the exact
\* mean gap
ExpectedNextOfRisk(trade_license) ==
    10 * (LastCollection(trade_license) * GapCount(trade_license)
              + GapTotal(trade_license) * TicksPerDay)

\* the instant, on the same scale, that the forecast matches the days
\* against: the stored last_collection_date plus the stored
\* avg_interval_days
ExpectedNextOfForecast(e) ==
    GapCount(e.trade_license) * TicksPerDay
        * (10 * e.last_collection_date + e.avg_interval_days)

\* C23: for every entity the expected next collection the forecast works
\* from is the same instant as the one its days_overdue and risk level are
\* computed from, the last collection plus the average interval.
C23_ForecastUsesSameExpectedNext ==
    PredictiveComputed =>
        \A i \in DOMAIN Profiles :
            ExpectedNextOfForecast(Profiles[i])
                = ExpectedNextOfRisk(Profiles[i].trade_license)

----------------------------------------------------------------------------
(* C24 *)

\* the entity patterns the code builds from the events of one entity id
\* alone, all events of other entities removed
PatternsOfEntityAlone(entity_id) ==
    calculate_collection_patterns(Where(df, "eid", entity_id)).entities

SameProfileValues(e, f) ==
    /\ e.avg_interval_days = f.avg_interval_days
    /\ e.last_collection_date = f.last_collection_date
    /\ e.days_overdue = f.days_overdue
    /\ e.risk_level = f.risk_level

\* C24: the profile of an entity (avg_interval_days, last collection,
\* days_overdue, risk_level) depends only on the events of that entity and
\* on the reference date: with the events of all other entities removed
\* the entity has the same profile.
C24_ProfileDependsOnOwnEventsOnly ==
    PatternsComputed =>
        \A i \in DOMAIN Profiles :
            \E k \in DOMAIN PatternsOfEntityAlone(Profiles[i].entity_id) :
                SameProfileValues(
                    PatternsOfEntityAlone(Profiles[i].entity_id)[k],
                    Profiles[i])

----------------------------------------------------------------------------
(* C25 *)

\* C25: in every profile the stored days_overdue is not negative and agrees
\* with the stored risk_level (normal iff 0, upcoming iff 1..5, warning iff
\* 6..10, critical iff above 10), and so entities_needing_attention, the
\* number of profiles with days_overdue > 5, equals high_risk_entities, the
\* number of warning and critical profiles.
C25_StoredOverdueAgreesWithRisk ==
    /\ PatternsComputed =>
           \A i \in DOMAIN Profiles :
               LET d == Profiles[i].days_overdue
                   level == Profiles[i].risk_level
               IN  /\ d >= 0
                   /\ level = "normal" <=> d = 0
                   /\ level = "upcoming" <=> (1 <= d /\ d <= 5)
                   /\ level = "warning" <=> (6 <= d /\ d <= 10)
                   /\ level = "critical" <=> d > 10
    /\ IntelligenceComputed =>
           intelligence.entities_needing_attention
               = intelligence.high_risk_entities

\* one profile not yet due whose stored days_overdue is 0, and one warning
\* or critical profile counted in both totals
C25_Witness ==
    /\ IntelligenceComputed
    /\ \E i \in DOMAIN Profiles :
           /\ ScaledLateness(Profiles[i].trade_license) < 0
           /\ Profiles[i].days_overdue = 0
           /\ Profiles[i].risk_level = "normal"
    /\ intelligence.high_risk_entities >= 1
    /\ intelligence.entities_needing_attention >= 1

----------------------------------------------------------------------------
(* C26 *)

\* the profiles of the entities the provider has served
ProfilesOfProvider(provider) ==
    {i \in DOMAIN Profiles :
        \E k \in DOMAIN df : /\ df[k].prov = provider
                             /\ df[k].eid = Profiles[i].entity_id}

\* the expected next collection of the profile falls within the 7 days
\* after the reference date: its signed days_overdue is one of -6 .. 0
IsDueWithinWeek(e) ==
    \E d \in -6 .. 0 : IsFloorOfLateness(d, e.trade_license)

\* C26: the upcoming_week_estimate of a provider is the number of its
\* entities whose expected next collection falls within the 7 days after
\* the reference date; an entity not due for more than a week is not
\* counted.
C26_UpcomingWeekCountsDueWithinWeek ==
    PredictiveComputed =>
        \A pr \in DOMAIN predictive.provider_workload_forecast :
            predictive.provider_workload_forecast[pr].upcoming_week_estimate
                = Cardinality({i \in ProfilesOfProvider(pr) :
                                  IsDueWithinWeek(Profiles[i])})

----------------------------------------------------------------------------
(* C27 *)

\* C27: no entity already overdue at the reference date (risk level
\* upcoming, warning or critical, days_overdue >= 1) is counted on a day of
\* the 30-day forecast: the count of every forecast day is made of normal
\* entities only.
C27_OverdueEntitiesNotForecast ==
    PredictiveComputed =>
        /\ DOMAIN predictive.next_30_days_forecast = Horizon
        /\ \A d \in DOMAIN predictive.next_30_days_forecast :
               predictive.next_30_days_forecast[d]
                   = Cardinality({i \in DOMAIN Profiles :
                                     /\ Profiles[i].risk_level = "normal"
                                     /\ EntityMatches(Profiles[i], d)})
        /\ \A i \in DOMAIN Profiles :
               Profiles[i].days_overdue >= 1 => MatchedDays(Profiles[i]) = {}

\* an entity one day overdue, expected two days before the first forecast
\* day and counted on no day, beside a normal entity that is counted
C27_Witness ==
    /\ PredictiveComputed
    /\ \E i \in DOMAIN Profiles :
           /\ Profiles[i].days_overdue = 1
           /\ Profiles[i].risk_level = "upcoming"
           /\ MatchedDays(Profiles[i]) = {}
    /\ \E i \in DOMAIN Profiles :
           /\ Profiles[i].risk_level = "normal"
           /\ MatchedDays(Profiles[i]) # {}
    /\ \E d \in Horizon : predictive.next_30_days_forecast[d] = 1

----------------------------------------------------------------------------
(* C28 *)

\* C28: high_risk_areas and high_risk_categories list only groups that have
\* at least one critical entity; a group without a critical entity is never
\* listed, even when fewer than 10 areas or 5 categories have one.
C28_HighRiskGroupsHaveCritical ==
    DelaysComputed =>
        /\ \A i \in DOMAIN delays.high_risk_areas :
               CriticalCount("area", delays.high_risk_areas[i]) >= 1
        /\ \A i \in DOMAIN delays.high_risk_categories :
               CriticalCount("category", delays.high_risk_categories[i]) >= 1

----------------------------------------------------------------------------
(* C29 *)

VolumeComputed == pc = "volume_done"

\* C29: the buckets of the volume distribution partition the collected
\* volumes: every gallons value, the limits 10, 15, 25, 50, 100, 200 and
\* 500 included, is counted in exactly one bucket, so the counts of the
\* buckets add up to the number of gallons values and the percentages to
\* 100 (to the rounding of seven two-decimal percentages).
C29_BucketsPartitionVolumes ==
    VolumeComputed =>
        /\ SumOfCounts([label \in DOMAIN volume |-> volume[label].count],
                       DOMAIN volume) = Len(df)
        /\ SumOfCounts([label \in DOMAIN volume |-> volume[label].total_gallons],
                       DOMAIN volume) = Sum(Column(df, "gal"))
        /\ Abs(SumOfCounts([label \in DOMAIN volume |->
                               volume[label].percentage], DOMAIN volume)
               - 10000) <= 4

----------------------------------------------------------------------------
(* C30 *)

\* the rows of the file collected on a date from 2023-01-01 to 2023-03-31,
\* at any time of the day
RowsOfTheQuarter ==
    SelectSeq(csv, LAMBDA row :
                       /\ row.collected # <<>>
                       /\ DateOf(row.collected[1]) >= Q1StartDay
                       /\ DateOf(row.collected[1]) <= Q1EndDay)

\* C30: the Q1 2023 filter keeps exactly the events collected from January
\* 1 through March 31, 2023 inclusive: an event collected at any time of
\* the day on March 31 is kept, an event of a date outside the range is
\* dropped.
C30_FilterKeepsWholeQuarter ==
    pc # "start" =>
        /\ Len(df) = Len(RowsOfTheQuarter)
        /\ \A i \in DOMAIN df :
               /\ i \in DOMAIN RowsOfTheQuarter
               /\ df[i].t = RowsOfTheQuarter[i].collected[1]
               /\ df[i].tl = RowsOfTheQuarter[i].tl
               /\ df[i].gal = RowsOfTheQuarter[i].gal

====
